---- MODULE Spec2Model ----
(***************************************************************************)
(* A model of the hotkey / keybinding subsystem of hack-interview          *)
(* (src/src/keybinds.py) and of the action dispatcher of the GUI           *)
(* (src/src/gui.py, src/src/audio.py).                                     *)
(*                                                                         *)
(* Strings that the code transforms (chords, key symbols) are sequences of *)
(* one-character strings, so that strip / replace / lower are computed as  *)
(* Python computes them.  Names that the code only compares (action names, *)
(* callback names) are TLA+ strings.                                       *)
(***************************************************************************)
EXTENDS Integers, Sequences, FiniteSets, TLC

VARIABLES
    file,            \* content of keybinds.config (KeybindManager.config_path)
    keybinds,        \* KeybindManager.keybinds
    callbacks,       \* KeybindManager._callbacks
    hotkey_handles,  \* KeybindManager.hotkey_handles
    osHooks,         \* hooks active in the `keyboard` library (process global)
    root,            \* KeybindManager.root
    dlg,             \* the KeybindDialog, with its two KeybindEntry widgets
    gui,             \* InterviewGUI / AudioRecorder state
    threads,         \* background analysis threads
    nSaves,          \* calls of save_keybinds so far
    nLoads,          \* restarts of the application so far
    last             \* outcome of the last operation (observation only)

vars == <<file, keybinds, callbacks, hotkey_handles, osHooks, root, dlg, gui,
          threads, nSaves, nLoads, last>>

---------------------------------------------------------------------------
(* Python string operations on sequences of characters                     *)

UpperChars ==
    <<"A","B","C","D","E","F","G","H","I","J","K","L","M",
      "N","O","P","Q","R","S","T","U","V","W","X","Y","Z">>

LowerChars ==
    <<"a","b","c","d","e","f","g","h","i","j","k","l","m",
      "n","o","p","q","r","s","t","u","v","w","x","y","z">>

\* str.lower() on one character
LowerChar(c) ==
    IF \E i \in DOMAIN UpperChars : UpperChars[i] = c
    THEN LowerChars[CHOOSE i \in DOMAIN UpperChars : UpperChars[i] = c]
    ELSE c

\* str.lower()
Lower(s) == [i \in 1..Len(s) |-> LowerChar(s[i])]

\* str.startswith(p)
StartsWith(s, p) == Len(s) >= Len(p) /\ SubSeq(s, 1, Len(p)) = p

\* str.endswith(p)
EndsWith(s, p) ==
    Len(s) >= Len(p) /\ SubSeq(s, Len(s) - Len(p) + 1, Len(s)) = p

\* `sub in s` for a non-empty sub
Contains(s, sub) ==
    \E i \in 1..(Len(s) - Len(sub) + 1) : SubSeq(s, i, i + Len(sub) - 1) = sub

\* str.replace(old, new) for a non-empty old: every non-overlapping
\* occurrence, scanning from the left
RECURSIVE Replace(_, _, _)
Replace(s, old, new) ==
    IF Len(s) < Len(old) THEN s
    ELSE IF StartsWith(s, old)
         THEN new \o Replace(SubSeq(s, Len(old) + 1, Len(s)), old, new)
         ELSE <<Head(s)>> \o Replace(Tail(s), old, new)

RECURSIVE LStrip(_, _)
LStrip(s, cs) ==
    IF s # <<>> /\ Head(s) \in cs THEN LStrip(Tail(s), cs) ELSE s

RECURSIVE RStrip(_, _)
RStrip(s, cs) ==
    IF s # <<>> /\ s[Len(s)] \in cs
    THEN RStrip(SubSeq(s, 1, Len(s) - 1), cs) ELSE s

\* str.strip(chars)
Strip(s, cs) == RStrip(LStrip(s, cs), cs)

\* sep.join(parts)
RECURSIVE Join(_, _)
Join(sep, parts) ==
    IF parts = <<>> THEN <<>>
    ELSE IF Len(parts) = 1 THEN parts[1]
         ELSE parts[1] \o sep \o Join(sep, Tail(parts))

---------------------------------------------------------------------------
(* Words used by the code                                                  *)

W_Control == <<"C","o","n","t","r","o","l">>
W_Shift   == <<"S","h","i","f","t">>
W_Alt     == <<"A","l","t">>
W_Win     == <<"W","i","n">>

\* f"<{s}>"
Angle(s) == <<"<">> \o s \o <<">">>

\* '<control-r>' and '<control-a>'
Bind_control_r == Angle(Lower(W_Control) \o <<"-","r">>)
Bind_control_a == Angle(Lower(W_Control) \o <<"-","a">>)

\* the logical actions the keybind map is read for
KeybindActions == {"record", "analyze"}

(* A Python dict is a sequence of <<key, value>> pairs in insertion order, *)
(* with no key twice.                                                      *)
DictKeys(d) == {d[i][1] : i \in DOMAIN d}

\* key in d
DictHas(d, k) == \E i \in DOMAIN d : d[i][1] = k

\* d[k], for a key of d
DictGet(d, k) == d[CHOOSE i \in DOMAIN d : d[i][1] = k][2]

\* d[k] = v
DictSet(d, k, v) ==
    IF DictHas(d, k)
    THEN [i \in DOMAIN d |-> IF d[i][1] = k THEN <<k, v>> ELSE d[i]]
    ELSE Append(d, <<k, v>>)

\* list(d.values())
DictValues(d) == [i \in DOMAIN d |-> d[i][2]]

\* d1 == d2 (Python compares dicts without regard to order)
DictEq(d1, d2) ==
    /\ DictKeys(d1) = DictKeys(d2)
    /\ \A k \in DictKeys(d1) : DictGet(d1, k) = DictGet(d2, k)

\* DEFAULT_KEYBINDS
DEFAULT_KEYBINDS ==
    << <<"record", <<Bind_control_r>> >>, <<"analyze", <<Bind_control_a>> >> >>

---------------------------------------------------------------------------
(* Keybind store: KeybindManager._format_bind, _load_keybinds,             *)
(* save_keybinds                                                           *)

\* _format_bind replacing the modifier by nothing: replace(mod.lower(), '')
FormatBindStepDrop(bind_str, mod) ==
    IF Contains(Lower(bind_str), Lower(mod))
    THEN Replace(bind_str, Lower(mod), <<>>)
    ELSE bind_str

\* one step of the loop of _format_bind
FormatBindStep(bind_str, mod) ==
    IF Contains(Lower(bind_str), Lower(mod))
    THEN Replace(bind_str, Lower(mod), mod)
    ELSE bind_str

\* KeybindManager._format_bind: modifiers = ['Control','Shift','Alt','Win']
FormatBind(bind_str) ==
    FormatBindStep(
        FormatBindStep(
            FormatBindStep(
                FormatBindStep(bind_str, W_Control), W_Shift), W_Alt), W_Win)

\* KeybindManager._format_hotkey: strip('<>'), replace('-', '+'), lower()
FormatHotkey(tk_bind) ==
    Lower(Replace(Strip(tk_bind, {"<", ">"}), <<"-">>, <<"+">>))

(* A JSON document is [t, items]: an object (items: its <<key, value>>   *)
(* pairs in order), or an array at top level.  A value of an object is a   *)
(* list of strings or a number.                                            *)
JList(items)   == [t |-> "list", items |-> items]
JNumber        == [t |-> "number", items |-> <<>>]
JObject(pairs) == [t |-> "object", items |-> pairs]
JArrayDoc      == [t |-> "array", items |-> <<>>]
NoDoc          == [t |-> "none", items |-> <<>>]

(* The configuration file: absent (config_path.exists() is False),         *)
(* unreadable (it exists and open() raises), garbage (its text is not      *)
(* JSON: json.load raises), or the text of a JSON document.                *)
FileAbsent     == [kind |-> "absent", doc |-> NoDoc]
FileUnreadable == [kind |-> "unreadable", doc |-> NoDoc]
FileGarbage    == [kind |-> "garbage", doc |-> NoDoc]
FileJson(doc)  == [kind |-> "json", doc |-> doc]

\* json.dump(keybinds, f, indent=2) of a dict of lists of strings
ToJson(kb) ==
    JObject([i \in DOMAIN kb |-> <<kb[i][1], JList(kb[i][2])>>])

\* whether the comprehension of _load_keybinds raises on the document:
\* loaded.items() on a non-object, or iterating a number
LoadRaises(doc) ==
    \/ doc.t # "object"
    \/ \E i \in DOMAIN doc.items : doc.items[i][2].t # "list"

\* KeybindManager._load_keybinds
LoadKeybinds(f) ==
    IF f.kind = "json" /\ ~LoadRaises(f.doc)
    THEN [i \in DOMAIN f.doc.items |->
             <<f.doc.items[i][1],
               [j \in DOMAIN f.doc.items[i][2].items |->
                    FormatBind(f.doc.items[i][2].items[j])]>>]
    ELSE DEFAULT_KEYBINDS

\* the outcomes of the I/O of save_keybinds
SaveOutcomes == {"ok", "open_fails", "write_fails"}

\* the file after save_keybinds(kb): open(path, 'w') truncates the file
\* before json.dump writes, so a failure while writing leaves a strict
\* prefix of the JSON text (which no JSON parser accepts)
SavedFile(f, kb, io) ==
    CASE io = "ok"          -> FileJson(ToJson(kb))
      [] io = "open_fails"  -> f
      [] io = "write_fails" -> FileGarbage

\* the return value of save_keybinds
SaveReturns(io) == io = "ok"

---------------------------------------------------------------------------
(* Hotkey registrar: KeybindManager._register_hotkeys over the `keyboard`  *)
(* library.  A hook of the library is [id, chord, cb]: the handle that     *)
(* add_hotkey returned, the chord it listens for and the callback it runs. *)
(* keyboard.remove_hotkey(handle) raises KeyError for a handle that is not *)
(* (or no longer) active.                                                  *)

ActiveIds(hooks) == {h.id : h \in hooks}

DictValueSet(d) == {d[i][2] : i \in DOMAIN d}

\* the handle add_hotkey returns: an object distinct from every handle that
\* is active or still referenced by hotkey_handles
NewHandle(handles, hooks) ==
    LET used == ActiveIds(hooks) \cup DictValueSet(handles)
    IN  CHOOSE n \in 1..(Cardinality(used) + 1) :
            /\ n \notin used
            /\ \A m \in 1..(n - 1) : m \in used

\* lines 28-29: for handle in self.hotkey_handles.values():
\*                  keyboard.remove_hotkey(handle)
\* in dict order; the first handle that is no longer active raises
RemoveLoop(handles, hooks) ==
    LET vals  == DictValues(handles)
        stale == {i \in DOMAIN vals : vals[i] \notin ActiveIds(hooks)}
        stop  == IF stale = {} THEN Len(vals) + 1
                 ELSE CHOOSE i \in stale : \A j \in stale : i <= j
        gone  == {vals[i] : i \in 1..(stop - 1)}
    IN  [hooks  |-> {h \in hooks : h.id \notin gone},
         raised |-> stale # {}]

\* one assignment of the try block (lines 33-37, 38-42):
\*   self.hotkey_handles[action] = keyboard.add_hotkey(
\*       self._format_hotkey(self.keybinds[action][0]), cb, suppress=True)
\* st.failed: an exception has already left the try block.  The lookup
\* raises KeyError / IndexError on a map without the action or with an empty
\* list; add_hotkey raises when the facility refuses the chord.
InstallOne(st, kb, action, cb, refuse) ==
    IF st.failed THEN st
    ELSE IF ~DictHas(kb, action) \/ DictGet(kb, action) = <<>>
              \/ action \in refuse
         THEN [st EXCEPT !.failed = TRUE]
         ELSE LET h == NewHandle(st.handles, st.hooks)
              IN  [handles   |-> DictSet(st.handles, action, h),
                   hooks     |-> st.hooks \cup
                                   {[id    |-> h,
                                     chord |-> FormatHotkey(DictGet(kb, action)[1]),
                                     cb    |-> cb]},
                   failed    |-> FALSE,
                   installed |-> st.installed \cup {action}]

\* KeybindManager._register_hotkeys; refuse: the actions whose chord the
\* facility refuses in this call.  raised: the call raised (KeyError from
\* remove_hotkey); logged: "Error registering hotkeys" was printed.
RegisterHotkeys(kb, handles, hooks, refuse) ==
    LET rm == RemoveLoop(handles, hooks)
        s0 == [handles |-> handles, hooks |-> rm.hooks, failed |-> FALSE,
               installed |-> {}]
        s1 == InstallOne(s0, kb, "record", "_trigger_record", refuse)
        s2 == InstallOne(s1, kb, "analyze", "_trigger_analyze", refuse)
    IN  IF rm.raised
        THEN [handles |-> handles, hooks |-> rm.hooks, raised |-> TRUE,
              logged |-> FALSE, installed |-> {}]
        ELSE [handles |-> s2.handles, hooks |-> s2.hooks, raised |-> FALSE,
              logged |-> s2.failed, installed |-> s2.installed]

(* What is observed of the calls of _register_hotkeys: of the most recent *)
(* call, the map it read (map), whether it raised, whether it printed      *)
(* "Error registering hotkeys" (logged), the actions it installed, the     *)
(* actions the facility refused (refuse); the map of the call before it    *)
(* (prev); and n, the number of calls so far, counted up to two.           *)
NoReg ==
    [n |-> 0, map |-> <<>>, prev |-> <<>>, raised |-> FALSE,
     logged |-> FALSE, installed |-> {}, refuse |-> {}]

RegSeen(reg, kb, r, refuse) ==
    [n |-> IF reg.n = 0 THEN 1 ELSE 2, map |-> kb, prev |-> reg.map,
     raised |-> r.raised, logged |-> r.logged, installed |-> r.installed,
     refuse |-> refuse]

---------------------------------------------------------------------------
(* The GUI: InterviewGUI (src/src/gui.py) over AudioRecorder               *)
(* (src/src/audio.py).  gui is a record:                                   *)
(*   is_recording, stream, frames   AudioRecorder's fields; stream is      *)
(*        "None", "open" (created, not started), "started" or "closed"     *)
(*   record_btn                     the text of the record button          *)
(*   question_view, short_answer_view, full_answer_view                    *)
(*        the panes: [text, by], by the thread that wrote it (0: the       *)
(*        caller of the handler)                                           *)
(*   screenshot, wav                whether screenshot.png / the recording *)
(*        file exist                                                       *)
(* threads is the sequence of the background threads started so far, each  *)
(* [kind, pc].                                                             *)

Pane(text, by) == [text |-> text, by |-> by]

\* InterviewGUI._setup_state, _create_widgets, _initialize_content_views,
\* AudioRecorder.__init__
InitGui ==
    [is_recording |-> FALSE, stream |-> "None", frames |-> "empty",
     record_btn |-> "Record Audio",
     question_view |-> Pane("", 0),
     short_answer_view |-> Pane("", 0),
     full_answer_view |-> Pane("", 0),
     screenshot |-> FALSE, wav |-> FALSE]

\* the outcomes of opening the input stream in start_recording
RecordOutcomes == {"ok", "open_fails", "start_fails"}

\* AudioRecorder.start_recording; io: whether sd.InputStream(...) or
\* stream.start() raises
StartRecording(g, io) ==
    LET g1 == [g EXCEPT !.is_recording = TRUE, !.frames = "empty"]
    IN  CASE io = "ok" ->
               [gui |-> [g1 EXCEPT !.stream = "started"], raised |-> FALSE]
          [] io = "open_fails" ->
               [gui |-> g1, raised |-> TRUE]
          [] io = "start_fails" ->
               [gui |-> [g1 EXCEPT !.stream = "open"], raised |-> TRUE]

\* AudioRecorder.save_recording
SaveRecording(g) ==
    IF g.frames = "some" THEN [g EXCEPT !.wav = TRUE] ELSE g

\* AudioRecorder.stop_recording
StopRecording(g) ==
    LET g1 == [g EXCEPT !.is_recording = FALSE]
        g2 == IF g1.stream # "None" THEN [g1 EXCEPT !.stream = "closed"]
              ELSE g1
    IN  [gui |-> SaveRecording(g2), raised |-> FALSE]

\* InterviewGUI.toggle_recording
ToggleRecording(g, io) ==
    IF g.is_recording
    THEN LET r == StopRecording(g)
         IN  [gui |-> [r.gui EXCEPT !.record_btn = "Start Recording"],
              raised |-> FALSE]
    ELSE LET r == StartRecording(g, io)
         IN  IF r.raised THEN r
             ELSE [gui |-> [r.gui EXCEPT !.record_btn = "Stop Recording"],
                   raised |-> FALSE]

\* threading.Thread(target=...).start()
Spawn(th, kind) == Append(th, [kind |-> kind, pc |-> "start"])

\* start_audio_analysis that does nothing while an audio pipeline is in
\* flight
StartAudioAnalysisDedup(g, th) ==
    IF \E i \in DOMAIN th :
          th[i].kind = "audio" /\ th[i].pc \notin {"done", "died", "failed"}
    THEN [gui |-> g, threads |-> th, errors |-> 0]
    ELSE [gui |-> [g EXCEPT
                      !.question_view = Pane("*Transcribing audio...*", 0)],
          threads |-> Append(th, [kind |-> "audio", pc |-> "start"]),
          errors |-> 0]

\* start_audio_analysis calling the pipeline itself,
\* self._full_audio_analysis_pipeline(), instead of starting a thread
StartAudioAnalysisInline(g, th) ==
    [gui |-> [g EXCEPT !.question_view = Pane("transcript", 0),
                       !.short_answer_view = Pane("short answer", 0),
                       !.full_answer_view = Pane("full answer", 0)],
     threads |-> th, errors |-> 0]

\* InterviewGUI.start_audio_analysis
StartAudioAnalysis(g, th) ==
    [gui |-> [g EXCEPT !.question_view = Pane("*Transcribing audio...*", 0)],
     threads |-> Spawn(th, "audio"), errors |-> 0]

\* InterviewGUI.start_screenshot_analysis
StartScreenshotAnalysis(g, th) ==
    IF ~g.screenshot
    THEN [gui |-> g, threads |-> th, errors |-> 1]
    ELSE [gui |-> [g EXCEPT !.question_view =
                               Pane("*Analyzing screenshot...*", 0)],
          threads |-> Spawn(th, "screenshot"), errors |-> 0]

\* InterviewGUI.take_screenshot over capture_focused_window; captured:
\* whether the capture succeeded
TakeScreenshot(g, captured) ==
    IF captured
    THEN [gui |-> [g EXCEPT !.screenshot = TRUE], errors |-> 0]
    ELSE [gui |-> g, errors |-> 1]

\* the keys of the handler table of _handle_hotkey
DispatchTable ==
    {"record", "analyze_audio", "analyze_screenshot", "screenshot"}

\* the action of the table branch of _handle_hotkey (lines 205-212)
DispatchKnown(action, g, th, io, captured) ==
    CASE action = "record" ->
           LET r == ToggleRecording(g, io)
           IN  [gui |-> r.gui, threads |-> th, raised |-> r.raised,
                called |-> "toggle_recording", warnings |-> 0, errors |-> 0]
      [] action = "analyze_audio" ->
           LET r == StartAudioAnalysis(g, th)
           IN  [gui |-> r.gui, threads |-> r.threads, raised |-> FALSE,
                called |-> "start_audio_analysis", warnings |-> 0,
                errors |-> r.errors]
      [] action = "analyze_screenshot" ->
           LET r == StartScreenshotAnalysis(g, th)
           IN  [gui |-> r.gui, threads |-> r.threads, raised |-> FALSE,
                called |-> "start_screenshot_analysis", warnings |-> 0,
                errors |-> r.errors]
      [] action = "screenshot" ->
           LET r == TakeScreenshot(g, captured)
           IN  [gui |-> r.gui, threads |-> th, raised |-> FALSE,
                called |-> "take_screenshot", warnings |-> 0,
                errors |-> r.errors]

\* _handle_hotkey with a default handler: handler.get(action,
\* self.toggle_recording)
HandleHotkeyDefaultToggle(action, g, th, io, captured) ==
    IF action \in DispatchTable
    THEN DispatchKnown(action, g, th, io, captured)
    ELSE DispatchKnown("record", g, th, io, captured)

\* InterviewGUI._handle_hotkey(action); io, captured: the outcomes of the
\* stream opening and of the window capture, where the handler gets there.
\* called: the behaviour invoked; warnings, errors: the log lines written.
HandleHotkey(action, g, th, io, captured) ==
    IF action \in DispatchTable
    THEN DispatchKnown(action, g, th, io, captured)
    ELSE [gui |-> g, threads |-> th, raised |-> FALSE, called |-> "none",
          warnings |-> 1, errors |-> 0]

\* one step of InterviewGUI._full_audio_analysis_pipeline on thread i, up to
\* the return of its next external call (transcribe_audio, generate_answer
\* twice); ok: whether that call returns, or raises.  An exception is caught
\* nowhere: it ends the thread.  The two _update_markdown calls that end
\* _generate_answers are two steps (pc "write_full" between them): another
\* thread can write between them.
AudioStep(g, th, i, ok) ==
    LET pc == th[i].pc
    IN  IF ~ok THEN [gui |-> g, threads |-> [th EXCEPT ![i].pc = "died"]]
        ELSE CASE pc = "start" ->
                    [gui |-> [g EXCEPT
                         !.question_view = Pane("transcript", i),
                         !.short_answer_view =
                             Pane("Generating short answer...", i),
                         !.full_answer_view =
                             Pane("Generating detailed answer...", i)],
                     threads |-> [th EXCEPT ![i].pc = "gen_short"]]
               [] pc = "gen_short" ->
                    [gui |-> g, threads |-> [th EXCEPT ![i].pc = "gen_full"]]
               [] pc = "gen_full" ->
                    [gui |-> [g EXCEPT
                         !.short_answer_view = Pane("short answer", i)],
                     threads |-> [th EXCEPT ![i].pc = "write_full"]]
               [] pc = "write_full" ->
                    [gui |-> [g EXCEPT
                         !.full_answer_view = Pane("full answer", i)],
                     threads |-> [th EXCEPT ![i].pc = "done"]]

\* one step of InterviewGUI._full_screenshot_analysis_pipeline on thread i:
\* _display_screenshot, then generate_image_answer twice; its except clause
\* writes the failure message to the question pane
ScreenshotStep(g, th, i, ok) ==
    LET pc == th[i].pc
    IN  CASE pc = "start" ->
               [gui |-> [g EXCEPT
                    !.short_answer_view =
                        Pane("Generating short answer...", i),
                    !.full_answer_view =
                        Pane("Generating detailed answer...", i),
                    !.question_view = Pane("thumbnail", i)],
                threads |-> [th EXCEPT ![i].pc = "gen_short"]]
          [] pc \in {"gen_short", "gen_full"} /\ ~ok ->
               [gui |-> [g EXCEPT !.question_view =
                             Pane("Analysis failed - check logs", i)],
                threads |-> [th EXCEPT ![i].pc = "failed"]]
          [] pc = "gen_short" /\ ok ->
               [gui |-> g, threads |-> [th EXCEPT ![i].pc = "gen_full"]]
          [] pc = "gen_full" /\ ok ->
               [gui |-> [g EXCEPT
                    !.short_answer_view = Pane("short answer", i)],
                threads |-> [th EXCEPT ![i].pc = "write_full"]]
          [] pc = "write_full" ->
               [gui |-> [g EXCEPT
                    !.full_answer_view = Pane("full answer", i)],
                threads |-> [th EXCEPT ![i].pc = "done"]]

\* the pcs at which a thread has ended
EndedPcs == {"done", "died", "failed"}

---------------------------------------------------------------------------
(* The rebind dialog: KeybindDialog with its two KeybindEntry widgets.     *)
(* An entry is [current_bind, modifiers]; dlg is                           *)
(*   [open, focus, record_entry, analyze_entry]                            *)
(* focus: the entry that has the keyboard focus, or "none".                *)

\* KeybindEntry.__init__
NewEntry ==
    [current_bind |-> <<>>,
     modifiers |-> [Control |-> FALSE, Shift |-> FALSE, Alt |-> FALSE]]

NoDialog ==
    [open |-> FALSE, focus |-> "none",
     record_entry |-> NewEntry, analyze_entry |-> NewEntry]

\* KeybindEntry._reset_modifiers
ResetModifiers(e) ==
    [e EXCEPT !.modifiers =
        [Control |-> FALSE, Shift |-> FALSE, Alt |-> FALSE]]

\* KeybindEntry.set_bind
SetBind(e, value) == [e EXCEPT !.current_bind = value]

\* KeybindEntry.get_bind
GetBind(e) == e.current_bind

\* the keysyms _process_key skips
ModifierKeysyms ==
    {W_Control \o <<"_","L">>, W_Control \o <<"_","R">>,
     W_Shift \o <<"_","L">>, W_Shift \o <<"_","R">>,
     W_Alt \o <<"_","L">>, W_Alt \o <<"_","R">>}

\* active_mods = [k for k, v in self.modifiers.items() if v]
ActiveMods(e) ==
    (IF e.modifiers.Control THEN <<W_Control>> ELSE <<>>)
    \o (IF e.modifiers.Shift THEN <<W_Shift>> ELSE <<>>)
    \o (IF e.modifiers.Alt THEN <<W_Alt>> ELSE <<>>)

\* the bind_str of _process_key (lines 189-195)
BindStr(e, key) ==
    IF ActiveMods(e) # <<>>
    THEN Angle(Lower(Join(<<"-">>, ActiveMods(e) \o <<key>>)))
    ELSE IF Len(key) > 1 THEN Angle(Lower(key)) ELSE Lower(key)

\* KeybindEntry._process_key; moved: the focus went to the master
ProcessKey(e, key) ==
    IF key \in ModifierKeysyms
    THEN [entry |-> e, moved |-> FALSE]
    ELSE [entry |-> SetBind(e, BindStr(e, key)), moved |-> TRUE]

\* KeybindEntry._update_modifiers_press
UpdateModifiersPress(e, key) ==
    IF StartsWith(key, W_Control)
    THEN [entry |-> [e EXCEPT !.modifiers.Control = TRUE], moved |-> FALSE]
    ELSE IF StartsWith(key, W_Shift)
    THEN [entry |-> [e EXCEPT !.modifiers.Shift = TRUE], moved |-> FALSE]
    ELSE IF StartsWith(key, W_Alt)
    THEN [entry |-> [e EXCEPT !.modifiers.Alt = TRUE], moved |-> FALSE]
    ELSE ProcessKey(e, key)

\* KeybindEntry._update_modifiers_release
UpdateModifiersRelease(e, key) ==
    IF StartsWith(key, W_Control) THEN [e EXCEPT !.modifiers.Control = FALSE]
    ELSE IF StartsWith(key, W_Shift) THEN [e EXCEPT !.modifiers.Shift = FALSE]
    ELSE IF StartsWith(key, W_Alt) THEN [e EXCEPT !.modifiers.Alt = FALSE]
    ELSE e

\* KeybindDialog._validate_bind
ValidateBind(bind_str) ==
    IF ~StartsWith(bind_str, <<"<">>) \/ ~EndsWith(bind_str, <<">">>)
    THEN Angle(Strip(bind_str, {"<", ">"}))
    ELSE bind_str

\* the new_binds of KeybindDialog._save (lines 131-134)
NewBinds(d) ==
    << <<"record", <<ValidateBind(GetBind(d.record_entry))>> >>,
       <<"analyze", <<ValidateBind(GetBind(d.analyze_entry))>> >> >>

\* whether keybinds[action][0] can be read
HasBind(kb, action) == DictHas(kb, action) /\ DictGet(kb, action) # <<>>

\* KeybindDialog.__init__: _create_widgets, then _load_current, which
\* raises KeyError / IndexError at the first action whose chord it cannot
\* read; the window and its widgets exist by then
OpenedDialog(kb) ==
    [open |-> TRUE, focus |-> "none",
     record_entry |->
        IF HasBind(kb, "record")
        THEN SetBind(NewEntry, DictGet(kb, "record")[1]) ELSE NewEntry,
     analyze_entry |->
        IF HasBind(kb, "record") /\ HasBind(kb, "analyze")
        THEN SetBind(NewEntry, DictGet(kb, "analyze")[1]) ELSE NewEntry]

\* the listeners a client can hand to add_callback, by what calling them
\* with no argument does: nothing of interest here, raising (as
\* InterviewGUI._handle_hotkey, which takes an argument, does), or
\* re-registering the hotkeys (the bound method _register_hotkeys)
ListenerKinds == {"noop", "raises", "register"}

\* KeybindManager.notify_callbacks from callback i on: st is
\* [handles, hooks, invoked, raised, reg]; refusals[i]: the actions the
\* facility refuses when callback i registers
RECURSIVE NotifyFrom(_, _, _, _, _)
NotifyFrom(cbs, i, kb, st, refusals) ==
    IF i > Len(cbs) THEN st
    ELSE LET inv == Append(st.invoked, i)
         IN  CASE cbs[i] = "raises" ->
                    [st EXCEPT !.invoked = inv, !.raised = TRUE]
               [] cbs[i] = "register" ->
                    LET r == RegisterHotkeys(kb, st.handles, st.hooks,
                                             refusals[i])
                        st1 == [handles |-> r.handles, hooks |-> r.hooks,
                                invoked |-> inv, raised |-> r.raised,
                                reg |-> RegSeen(st.reg, kb, r, refusals[i])]
                    IN  IF r.raised THEN st1
                        ELSE NotifyFrom(cbs, i + 1, kb, st1, refusals)
               [] OTHER ->
                    NotifyFrom(cbs, i + 1, kb,
                               [st EXCEPT !.invoked = inv], refusals)

\* KeybindManager.notify_callbacks
NotifyCallbacks(cbs, kb, handles, hooks, reg, refusals) ==
    NotifyFrom(cbs, 1, kb,
               [handles |-> handles, hooks |-> hooks, invoked |-> <<>>,
                raised |-> FALSE, reg |-> reg],
               refusals)

---------------------------------------------------------------------------
(* Delivery of a global chord: the hooks of the chord run their callbacks, *)
(* _trigger_record / _trigger_analyze, which generate a virtual event on   *)
(* the root window; Tk runs the handlers bound to the event.               *)

\* the virtual event a hook callback generates (lines 52-57)
VirtualEvent(cb) ==
    IF cb = "_trigger_record" THEN "<<RecordTriggered>>"
    ELSE "<<AnalyzeTriggered>>"

\* the handlers bound to a virtual event on the root window: InterviewGUI
\* binds none (it never calls root.bind)
BoundHandlers(event) == <<>>

\* the handlers Tk runs for a set of virtual events
HandlersOf(events) ==
    (IF "<<RecordTriggered>>" \in events
     THEN BoundHandlers("<<RecordTriggered>>") ELSE <<>>)
    \o (IF "<<AnalyzeTriggered>>" \in events
        THEN BoundHandlers("<<AnalyzeTriggered>>") ELSE <<>>)

\* running the bound handlers in turn
RECURSIVE RunHandlers(_, _, _, _)
RunHandlers(hs, g, th, io) ==
    IF hs = <<>> THEN [gui |-> g, threads |-> th]
    ELSE LET r == CASE Head(hs) = "toggle_recording" ->
                         [gui |-> ToggleRecording(g, io).gui, threads |-> th]
                    [] Head(hs) = "start_audio_analysis" ->
                         LET x == StartAudioAnalysis(g, th)
                         IN  [gui |-> x.gui, threads |-> x.threads]
                    [] OTHER -> [gui |-> g, threads |-> th]
         IN  RunHandlers(Tail(hs), r.gui, r.threads, io)

\* what a press of chord c does: fired, the callbacks of the hooks of c;
\* events, the virtual events they generate (event_generate on a root that
\* is still None raises AttributeError); handlers, what Tk then runs
Delivery(c, hooks, rt) ==
    LET fired  == {h.cb : h \in {x \in hooks : x.chord = c}}
        events == IF rt = "Tk" THEN {VirtualEvent(cb) : cb \in fired} ELSE {}
    IN  [fired |-> fired, events |-> events, handlers |-> HandlersOf(events)]

\* the number of times h is in hs
Count(hs, h) == Cardinality({i \in DOMAIN hs : hs[i] = h})

---------------------------------------------------------------------------
(* Bounds                                                                  *)

\* listeners registered with add_callback
MaxCallbacks == 2

\* background threads started
MaxThreads == 2

\* calls of save_keybinds in a behaviour
MaxSaves == 1

\* restarts of the application in a behaviour
MaxLoads == 1

---------------------------------------------------------------------------
(* Actions.  Every action sets last to [op, out, reg]: its name, what is   *)
(* observed of it, and what is observed of _register_hotkeys so far.       *)

kbVars  == <<file, keybinds, callbacks, hotkey_handles, osHooks, root, dlg>>

Seen(op, out) == [op |-> op, out |-> out, reg |-> last.reg]

\* KeybindManager.add_callback
AddCallback(k) ==
    /\ Len(callbacks) < MaxCallbacks
    /\ callbacks' = Append(callbacks, k)
    /\ last' = Seen("add_callback", FALSE)
    /\ UNCHANGED <<file, keybinds, hotkey_handles, osHooks, root, dlg,
                   gui, threads, nSaves, nLoads>>

\* InterviewGUI.run, lines 407-408: the root is handed to the manager and
\* the hotkeys are registered
Register(refuse) ==
    LET r == RegisterHotkeys(keybinds, hotkey_handles, osHooks, refuse)
    IN  /\ root' = "Tk"
        /\ hotkey_handles' = r.handles
        /\ osHooks' = r.hooks
        /\ last' = [op |-> "register", out |-> FALSE,
                    reg |-> RegSeen(last.reg, keybinds, r, refuse)]
        /\ UNCHANGED <<file, keybinds, callbacks, dlg, gui, threads,
                       nSaves, nLoads>>

\* InterviewGUI.run, once per process
Run(refuse) ==
    /\ root = "None"
    /\ Register(refuse)

\* a press of the global chord c
PressChord(c, io) ==
    LET d == Delivery(c, osHooks, root)
        r == RunHandlers(d.handlers, gui, threads, io)
    IN  /\ gui' = r.gui
        /\ threads' = r.threads
        /\ last' = Seen("press",
                        [chord |-> c, fired |-> d.fired, events |-> d.events,
                         toggles |-> Count(d.handlers, "toggle_recording")])
        /\ UNCHANGED <<file, keybinds, callbacks, hotkey_handles, osHooks,
                       root, dlg, nSaves, nLoads>>

\* InterviewGUI._open_settings: KeybindDialog(self.root, self.keybind_manager)
OpenSettings ==
    /\ ~dlg.open
    /\ dlg' = OpenedDialog(keybinds)
    /\ last' = Seen("open_settings", FALSE)
    /\ UNCHANGED <<file, keybinds, callbacks, hotkey_handles, osHooks, root,
                   gui, threads, nSaves, nLoads>>

EntryOf(d, e) == IF e = "record" THEN d.record_entry ELSE d.analyze_entry

WithEntry(d, e, v) ==
    IF e = "record" THEN [d EXCEPT !.record_entry = v]
    ELSE [d EXCEPT !.analyze_entry = v]

\* <FocusIn> on entry e
FocusIn(e) ==
    /\ dlg.open
    /\ dlg.focus # e
    /\ dlg' = [WithEntry(dlg, e, ResetModifiers(EntryOf(dlg, e)))
                  EXCEPT !.focus = e]
    /\ last' = Seen("focus_in", FALSE)
    /\ UNCHANGED <<file, keybinds, callbacks, hotkey_handles, osHooks, root,
                   gui, threads, nSaves, nLoads>>

\* <KeyPress> of key on the entry that has the focus
KeyPress(key) ==
    /\ dlg.open
    /\ dlg.focus # "none"
    /\ LET r == UpdateModifiersPress(EntryOf(dlg, dlg.focus), key)
       IN  dlg' = [WithEntry(dlg, dlg.focus, r.entry)
                      EXCEPT !.focus = IF r.moved THEN "none" ELSE @]
    /\ last' = Seen("key_press", FALSE)
    /\ UNCHANGED <<file, keybinds, callbacks, hotkey_handles, osHooks, root,
                   gui, threads, nSaves, nLoads>>

\* <KeyRelease> of key on the entry that has the focus
KeyRelease(key) ==
    /\ dlg.open
    /\ dlg.focus # "none"
    /\ dlg' = WithEntry(dlg, dlg.focus,
                        UpdateModifiersRelease(EntryOf(dlg, dlg.focus), key))
    /\ last' = Seen("key_release", FALSE)
    /\ UNCHANGED <<file, keybinds, callbacks, hotkey_handles, osHooks, root,
                   gui, threads, nSaves, nLoads>>

\* the refusals the facility can answer the listeners of a notification
\* with: a set of actions for each listener that registers
Refusals(cbs) ==
    {f \in [DOMAIN cbs -> SUBSET KeybindActions] :
        \A i \in DOMAIN cbs : cbs[i] # "register" => f[i] = {}}

\* KeybindDialog._save (the Save button); io: the outcome of the I/O of
\* save_keybinds.  An exception of a listener leaves _save before
\* self.destroy().
DialogSave(io, refusals) ==
    /\ dlg.open
    /\ nSaves < MaxSaves
    /\ nSaves' = nSaves + 1
    /\ LET nb == NewBinds(dlg)
           n  == NotifyCallbacks(callbacks, keybinds, hotkey_handles,
                                 osHooks, last.reg, refusals)
       IN  /\ file' = SavedFile(file, nb, io)
           /\ IF SaveReturns(io)
              THEN /\ hotkey_handles' = n.handles
                   /\ osHooks' = n.hooks
                   /\ dlg' = IF n.raised THEN dlg ELSE NoDialog
                   /\ last' = [op |-> "save",
                               out |-> [saved |-> TRUE, map |-> nb,
                                        before |-> file,
                                        invoked |-> n.invoked,
                                        raised |-> n.raised],
                               reg |-> n.reg]
              ELSE /\ UNCHANGED <<hotkey_handles, osHooks, dlg>>
                   /\ last' = Seen("save",
                                   [saved |-> FALSE, map |-> nb,
                                    before |-> file, invoked |-> <<>>,
                                    raised |-> FALSE])
    /\ UNCHANGED <<keybinds, callbacks, root, gui, threads, nLoads>>

\* a Cancel button whose command is self._save
DialogCancelSaves ==
    /\ dlg.open
    /\ dlg' = NoDialog
    /\ file' = SavedFile(file, NewBinds(dlg), "ok")
    /\ last' = Seen("cancel", [discarded |-> NewBinds(dlg)])
    /\ UNCHANGED <<keybinds, callbacks, hotkey_handles, osHooks, root,
                   gui, threads, nSaves, nLoads>>

\* the Cancel button: self.destroy; out: the chords of the entries, which
\* go with the window
DialogCancel ==
    /\ dlg.open
    /\ dlg' = NoDialog
    /\ last' = Seen("cancel", [discarded |-> NewBinds(dlg)])
    /\ UNCHANGED <<file, keybinds, callbacks, hotkey_handles, osHooks, root,
                   gui, threads, nSaves, nLoads>>

\* the state after KeybindManager.__init__ and the construction of the GUI
\* state, for the configuration file f
Started(f) ==
    /\ file = f
    /\ keybinds = LoadKeybinds(f)
    /\ callbacks = <<>>
    /\ hotkey_handles = <<>>
    /\ osHooks = {}
    /\ root = "None"
    /\ dlg = NoDialog
    /\ gui = InitGui
    /\ threads = <<>>
    /\ nSaves = 0
    /\ nLoads = 0
    /\ last = [op |-> "init", out |-> FALSE, reg |-> NoReg]

\* the process ends and the application is started again:
\* KeybindManager.__init__ loads the map; the hooks of the old process are
\* gone with it.  out: whether the load follows a successful save, and the
\* map that was saved.
Restart ==
    /\ ~dlg.open
    /\ nLoads < MaxLoads
    /\ nLoads' = nLoads + 1
    /\ keybinds' = LoadKeybinds(file)
    /\ callbacks' = <<>>
    /\ hotkey_handles' = <<>>
    /\ osHooks' = {}
    /\ root' = "None"
    /\ gui' = InitGui
    /\ threads' = <<>>
    /\ last' = [op |-> "load",
                out |-> IF last.op = "save" /\ last.out.saved
                        THEN [after_save |-> TRUE, saved |-> last.out.map]
                        ELSE [after_save |-> FALSE, saved |-> <<>>],
                reg |-> NoReg]
    /\ UNCHANGED <<file, dlg, nSaves>>

\* a client assigns the map the registrar reads (KeybindManager.keybinds)
AssignKeybinds(m) ==
    /\ keybinds # m
    /\ keybinds' = m
    /\ last' = Seen("assign", FALSE)
    /\ UNCHANGED <<file, callbacks, hotkey_handles, osHooks, root, dlg,
                   gui, threads, nSaves, nLoads>>

\* InterviewGUI._handle_hotkey(action)
Dispatch(action, io, captured) ==
    LET r == HandleHotkey(action, gui, threads, io, captured)
    IN  /\ Len(r.threads) <= MaxThreads
        /\ gui' = r.gui
        /\ threads' = r.threads
        /\ last' = Seen("dispatch",
                        [action |-> action, called |-> r.called,
                         raised |-> r.raised, warnings |-> r.warnings,
                         errors |-> r.errors])
        /\ UNCHANGED <<file, keybinds, callbacks, hotkey_handles, osHooks,
                       root, dlg, nSaves, nLoads>>

\* a click on a button of the control panel (lines 127-134): its command
ClickButton(action, io) ==
    LET r == DispatchKnown(action, gui, threads, io, FALSE)
    IN  /\ Len(r.threads) <= MaxThreads
        /\ gui' = r.gui
        /\ threads' = r.threads
        /\ last' = Seen("click", FALSE)
        /\ UNCHANGED <<file, keybinds, callbacks, hotkey_handles, osHooks,
                       root, dlg, nSaves, nLoads>>

\* a step of background thread i; ok: whether the external call the step
\* ends with returns (a step that ends with no external call has ok)
ThreadStep(i, ok) ==
    /\ i \in DOMAIN threads
    /\ threads[i].pc \notin EndedPcs
    /\ threads[i].pc = "write_full" => ok
    /\ LET r == IF threads[i].kind = "audio"
                THEN AudioStep(gui, threads, i, ok)
                ELSE ScreenshotStep(gui, threads, i, ok)
       IN  gui' = r.gui /\ threads' = r.threads
    /\ last' = Seen("thread", FALSE)
    /\ UNCHANGED <<file, keybinds, callbacks, hotkey_handles, osHooks,
                   root, dlg, nSaves, nLoads>>

\* AudioRecorder.audio_callback, called by the started stream
AudioCallback ==
    /\ gui.stream = "started"
    /\ gui' = IF gui.is_recording THEN [gui EXCEPT !.frames = "some"] ELSE gui
    /\ last' = Seen("audio_callback", FALSE)
    /\ UNCHANGED <<file, keybinds, callbacks, hotkey_handles, osHooks,
                   root, dlg, threads, nSaves, nLoads>>

---------------------------------------------------------------------------
(* Key symbols (event.keysym), chords and configuration files used below   *)

K_Control_L == W_Control \o <<"_","L">>
K_r         == <<"r">>
K_F5        == <<"F","5">>

\* '<control-x>'
Bind_control_x == Angle(Lower(W_Control) \o <<"-","x">>)

\* {"record": ["<control-x>"], "analyze": ["<control-a>"]}
CustomDoc ==
    JObject(<< <<"record", JList(<<Bind_control_x>>)>>,
               <<"analyze", JList(<<Bind_control_a>>)>> >>)

\* the chord of action a in map kb
ChordOf(kb, a) == FormatHotkey(DictGet(kb, a)[1])

\* the chords of the hooks and of the map
Chords ==
    {h.chord : h \in osHooks}
    \cup {ChordOf(keybinds, a) :
             a \in {x \in KeybindActions : HasBind(keybinds, x)}}

---------------------------------------------------------------------------
(* Spec: the running application.  Listeners are registered, run()         *)
(* registers the hotkeys, then chords are pressed and the dialog is used.  *)

AppFiles == {FileAbsent, FileJson(CustomDoc)}

AppKeys == {K_r}

Init == \E f \in AppFiles : Started(f)

Next ==
    \/ \E k \in ListenerKinds : root = "None" /\ AddCallback(k)
    \/ \E refuse \in SUBSET KeybindActions : Run(refuse)
    \/ \E c \in Chords : root = "Tk" /\ PressChord(c, "ok")
    \/ root = "Tk" /\ OpenSettings
    \/ \E e \in KeybindActions : FocusIn(e)
    \/ \E key \in AppKeys : KeyPress(key)
    \/ \E key \in AppKeys : KeyRelease(key)
    \/ \E io \in SaveOutcomes : \E rf \in Refusals(callbacks) :
          DialogSave(io, rf)
    \/ DialogCancel

Spec == Init /\ [][Next]_vars

---------------------------------------------------------------------------
(* SpecReg: the registrar alone, called again and again with the map a     *)
(* client gives it.                                                        *)

\* {"record": ["<control-a>"], "analyze": ["<control-r>"]}
SwappedMap ==
    << <<"record", <<Bind_control_a>> >>, <<"analyze", <<Bind_control_r>> >> >>

RegMaps == {DEFAULT_KEYBINDS, LoadKeybinds(FileJson(CustomDoc)), SwappedMap}

RegChords == {ChordOf(m, a) : m \in RegMaps, a \in KeybindActions}

InitReg == Started(FileAbsent)

NextReg ==
    \/ \E m \in RegMaps : AssignKeybinds(m)
    \/ \E refuse \in SUBSET KeybindActions : Register(refuse)
    \/ \E c \in RegChords : root = "Tk" /\ PressChord(c, "ok")

SpecReg == InitReg /\ [][NextReg]_vars

---------------------------------------------------------------------------
(* SpecStore: the keybind store and the dialog that saves to it.           *)

StoreFiles ==
    {FileAbsent, FileUnreadable, FileGarbage,
     FileJson(JArrayDoc),
     FileJson(JObject(<< <<"record", JNumber>> >>)),
     FileJson(JObject(<< <<"record", JList(<<Bind_control_x>>)>> >>)),
     FileJson(JObject(<< <<"record", JList(<<>>)>>,
                         <<"analyze", JList(<<Bind_control_a>>)>> >>)),
     FileJson(CustomDoc)}

StoreKeys == {K_Control_L, K_r, K_F5}

InitStore == \E f \in StoreFiles : Started(f)

NextStore ==
    \/ OpenSettings
    \/ \E e \in KeybindActions : FocusIn(e)
    \/ \E key \in StoreKeys : KeyPress(key)
    \/ \E key \in StoreKeys : KeyRelease(key)
    \/ \E io \in SaveOutcomes : DialogSave(io, <<>>)
    \/ DialogCancel
    \/ Restart

SpecStore == InitStore /\ [][NextStore]_vars

---------------------------------------------------------------------------
(* SpecDialog: the rebind dialog of the running application, its hooks     *)
(* registered and no listener added (as run() leaves it).                  *)

DialogKeys == {K_Control_L, K_r}

InitDialog == \E f \in AppFiles : Started(f)

NextDialog ==
    \/ \E refuse \in SUBSET KeybindActions : Run(refuse)
    \/ root = "Tk" /\ OpenSettings
    \/ \E e \in KeybindActions : FocusIn(e)
    \/ \E key \in DialogKeys : KeyPress(key)
    \/ \E key \in DialogKeys : KeyRelease(key)
    \/ \E io \in SaveOutcomes : DialogSave(io, <<>>)
    \/ DialogCancel

SpecDialog == InitDialog /\ [][NextDialog]_vars

---------------------------------------------------------------------------
(* SpecGui: the dispatcher, the buttons and the background threads.        *)

\* the action names handed to _handle_hotkey: those of its table, the
\* `analyze` of the keybind map, and a name of no action
DispatchNames == DispatchTable \cup {"analyze", "not-a-real-action"}

InitGuiSpec == Started(FileAbsent)

NextGui ==
    \/ \E a \in DispatchNames \ {"record", "screenshot"} :
          Dispatch(a, "ok", FALSE)
    \/ \E io \in RecordOutcomes : Dispatch("record", io, FALSE)
    \/ \E captured \in BOOLEAN : Dispatch("screenshot", "ok", captured)
    \/ \E a \in {"analyze_audio", "analyze_screenshot"} : ClickButton(a, "ok")
    \/ \E io \in RecordOutcomes : ClickButton("record", io)
    \/ \E i \in 1..MaxThreads : \E ok \in BOOLEAN : ThreadStep(i, ok)
    \/ AudioCallback

SpecGui == InitGuiSpec /\ [][NextGui]_vars
---------------------------------------------------------------------------
(* SpecEntry: the record entry of the rebind dialog under key events.      *)
(* last.out is [held, key, resolved]: the keys that went down and not yet  *)
(* up since the entry got the focus, the key of the event, and whether the *)
(* event resolved a chord.                                                 *)

K_Control_R == W_Control \o <<"_", "R">>
K_Shift_L   == W_Shift \o <<"_", "L">>
K_Win_L     == W_Win \o <<"_", "L">>

EntryKeys == {K_Control_L, K_Control_R, K_Shift_L, K_r, K_F5, K_Win_L}

EntryOps == {"entry_focus_in", "key_down", "key_up"}

\* the keys down since the entry got the focus
Held == IF last.op \in EntryOps THEN last.out.held ELSE {}

\* <FocusIn> on the record entry
EntryFocusIn ==
    /\ dlg.open
    /\ dlg.focus # "record"
    /\ dlg' = [dlg EXCEPT !.record_entry = ResetModifiers(dlg.record_entry),
                          !.focus = "record"]
    /\ last' = Seen("entry_focus_in",
                    [held |-> {}, key |-> <<>>, resolved |-> FALSE])
    /\ UNCHANGED <<file, keybinds, callbacks, hotkey_handles, osHooks, root,
                   gui, threads, nSaves, nLoads>>

\* <KeyPress> on the record entry: key goes down
EntryKeyDown(key) ==
    /\ dlg.open
    /\ dlg.focus = "record"
    /\ key \notin Held
    /\ LET r == UpdateModifiersPress(dlg.record_entry, key)
       IN  /\ dlg' = [dlg EXCEPT !.record_entry = r.entry,
                                 !.focus = IF r.moved THEN "none" ELSE @]
           /\ last' = Seen("key_down",
                           [held |-> Held \cup {key}, key |-> key,
                            resolved |-> r.moved])
    /\ UNCHANGED <<file, keybinds, callbacks, hotkey_handles, osHooks, root,
                   gui, threads, nSaves, nLoads>>

\* <KeyRelease> on the record entry: key goes up
EntryKeyUp(key) ==
    /\ dlg.open
    /\ dlg.focus = "record"
    /\ key \in Held
    /\ dlg' = [dlg EXCEPT !.record_entry =
                              UpdateModifiersRelease(dlg.record_entry, key)]
    /\ last' = Seen("key_up",
                    [held |-> Held \ {key}, key |-> key, resolved |-> FALSE])
    /\ UNCHANGED <<file, keybinds, callbacks, hotkey_handles, osHooks, root,
                   gui, threads, nSaves, nLoads>>

InitEntry == Started(FileAbsent)

NextEntry ==
    \/ OpenSettings
    \/ EntryFocusIn
    \/ \E key \in EntryKeys : EntryKeyDown(key)
    \/ \E key \in EntryKeys : EntryKeyUp(key)
    \/ DialogSave("ok", <<>>)
    \/ DialogCancel

SpecEntry == InitEntry /\ [][NextEntry]_vars

---------------------------------------------------------------------------
(* SpecHandlers: handle_events of handlers.py, the event handler of the    *)
(* PySimpleGUI window.  The window is held in gui and threads:             *)
(*   gui.is_recording     button.metadata.state of -RECORD_BUTTON-         *)
(*   gui.record_btn       its image                                        *)
(*   gui.question_view, short_answer_view, full_answer_view                *)
(*        -TRANSCRIBED_TEXT-, -QUICK_ANSWER-, -FULL_ANSWER-                *)
(*   threads   the long operations started by perform_long_operation, each *)
(*        [kind, pc]: kind its end key, pc "running", "posted" (it         *)
(*        returned and its event is in the queue of the window), "handled" *)
(*        (handle_events got the event) or "died" (it raised: no event)    *)
(* last.out is [event, focus]: the event handled and what                  *)
(* find_element_with_focus answered.                                       *)

\* the long operations a window holds at most
MaxOps == 3

RecordEvents  == {"r", "R", "-RECORD_BUTTON-"}
AnalyzeEvents == {"a", "A", "-ANALYZE_BUTTON-"}

\* the events of the keyboard and the buttons
UserEvents == RecordEvents \cup AnalyzeEvents \cup {"Return:36", "Escape:9"}

\* event[:6] of the events above and of the end keys
Prefix6(event) ==
    CASE event = "Return:36" -> "Return"
      [] event = "Escape:9"  -> "Escape"
      [] event \in {"-WHISPER-", "-QUICK_ANSWER-", "-FULL_ANSWER-",
                    "-RECORDED-", "-RECORD_BUTTON-", "-ANALYZE_BUTTON-"}
            -> "other"
      [] OTHER -> event

\* what window.find_element_with_focus() answers: no element, the position
\* input, another element, KeyError('popdown'), another exception
FocusOutcomes == {"none", "position", "other", "popdown_error", "error"}

\* window.perform_long_operation(func, end_key)
LongOperation(th, end_key) == Append(th, [kind |-> end_key, pc |-> "running"])

\* recording_event
RecordingEvent(g, th) ==
    LET state == ~g.is_recording
    IN  [gui |-> [g EXCEPT !.is_recording = state,
                           !.record_btn = IF state THEN "ON_IMAGE"
                                          ELSE "OFF_IMAGE"],
         threads |-> IF state THEN LongOperation(th, "-RECORDED-") ELSE th]

\* transcribe_event
TranscribeEvent(g, th) ==
    [gui |-> [g EXCEPT !.question_view = Pane("Transcribing audio...", 0)],
     threads |-> LongOperation(th, "-WHISPER-")]

\* answer_events
AnswerEvents(g, th) ==
    [gui |-> [g EXCEPT
                 !.question_view = Pane("transcript", 0),
                 !.short_answer_view = Pane("Generating quick answer...", 0),
                 !.full_answer_view = Pane("Generating full answer...", 0)],
     threads |-> LongOperation(LongOperation(th, "-QUICK_ANSWER-"),
                               "-FULL_ANSWER-")]

\* the try block of handle_events (lines 14-40), focus not raising
KeyOrButton(event, focus, g, th) ==
    IF focus = "position" THEN [gui |-> g, threads |-> th]
    ELSE IF event \in RecordEvents THEN RecordingEvent(g, th)
    ELSE IF event \in AnalyzeEvents THEN TranscribeEvent(g, th)
    ELSE [gui |-> g, threads |-> th]

\* handle_events(window, event, values)
HandleEvents(event, focus, g, th) ==
    IF focus \in {"popdown_error", "error"}
    THEN [gui |-> g, threads |-> th]
    ELSE LET r == KeyOrButton(event, focus, g, th)
         IN  IF Prefix6(event) \in {"Return", "Escape"} THEN r
             ELSE IF event = "-WHISPER-" THEN AnswerEvents(r.gui, r.threads)
             ELSE IF event = "-QUICK_ANSWER-"
             THEN [r EXCEPT !.gui.short_answer_view = Pane("quick answer", 0)]
             ELSE IF event = "-FULL_ANSWER-"
             THEN [r EXCEPT !.gui.full_answer_view = Pane("full answer", 0)]
             ELSE r

\* window.read() returns an event of the keyboard or of a button
UserEvent(event, focus) ==
    LET r == HandleEvents(event, focus, gui, threads)
    IN  /\ Len(r.threads) <= MaxOps
        /\ gui' = r.gui
        /\ threads' = r.threads
        /\ last' = Seen("event", [event |-> event, focus |-> focus])
        /\ UNCHANGED <<file, keybinds, callbacks, hotkey_handles, osHooks,
                       root, dlg, nSaves, nLoads>>

\* the function of long operation i returns (ok) and its end key is
\* written to the window, or raises.  audio.record, the function of
\* -RECORDED-, is not defined by audio.py: that operation raises.
OpEnds(i, ok) ==
    /\ i \in DOMAIN threads
    /\ threads[i].pc = "running"
    /\ threads[i].kind = "-RECORDED-" => ~ok
    /\ threads' = [threads EXCEPT ![i].pc = IF ok THEN "posted" ELSE "died"]
    /\ last' = Seen("op_ends", FALSE)
    /\ UNCHANGED <<file, keybinds, callbacks, hotkey_handles, osHooks,
                   root, dlg, gui, nSaves, nLoads>>

\* window.read() returns the end key of long operation i
OpEvent(i, focus) ==
    /\ i \in DOMAIN threads
    /\ threads[i].pc = "posted"
    /\ LET r == HandleEvents(threads[i].kind, focus, gui,
                             [threads EXCEPT ![i].pc = "handled"])
       IN  /\ Len(r.threads) <= MaxOps
           /\ gui' = r.gui
           /\ threads' = r.threads
    /\ last' = Seen("event", [event |-> threads[i].kind, focus |-> focus])
    /\ UNCHANGED <<file, keybinds, callbacks, hotkey_handles, osHooks,
                   root, dlg, nSaves, nLoads>>

InitHandlers == Started(FileAbsent)

NextHandlers ==
    \/ \E event \in UserEvents : \E focus \in FocusOutcomes :
          UserEvent(event, focus)
    \/ \E i \in 1..MaxOps : \E ok \in BOOLEAN : OpEnds(i, ok)
    \/ \E i \in 1..MaxOps : \E focus \in FocusOutcomes : OpEvent(i, focus)

SpecHandlers == InitHandlers /\ [][NextHandlers]_vars

---------------------------------------------------------------------------
(* SpecPipe: the dispatcher and the analysis pipelines on their background *)
(* threads; the stream of the recorder always opens.                       *)

InitPipe == Started(FileAbsent)

NextPipe ==
    \/ \E a \in DispatchNames \ {"screenshot"} : Dispatch(a, "ok", FALSE)
    \/ \E captured \in BOOLEAN : Dispatch("screenshot", "ok", captured)
    \/ \E a \in {"analyze_audio", "analyze_screenshot"} : ClickButton(a, "ok")
    \/ \E i \in 1..MaxThreads : \E ok \in BOOLEAN : ThreadStep(i, ok)

SpecPipe == InitPipe /\ [][NextPipe]_vars
---------------------------------------------------------------------------
(* Claims                                                                  *)

\* the hook callback of an action of the keybind map
CallbackOf(a) == IF a = "record" THEN "_trigger_record" ELSE "_trigger_analyze"

\* the action a hook callback stands for
ActionOf(cb) == IF cb = "_trigger_record" THEN "record" ELSE "analyze"

\* the hooks as <<callback, chord>> pairs
HookPairs(hooks) == {<<h.cb, h.chord>> : h \in hooks}

\* the <<callback, chord>> pairs a complete map implies
ImpliedPairs(kb) == {<<CallbackOf(a), ChordOf(kb, a)>> : a \in KeybindActions}

(* C1: after a successful Save in the rebind dialog the active global      *)
(* hooks are those of the newly saved map: no active hook listens for a    *)
(* chord other than the one the saved map gives its action.                *)
C1_HooksFollowSave ==
    (last.op = "save" /\ last.out.saved /\ ~last.out.raised)
        => \A h \in osHooks : h.chord = ChordOf(last.out.map, ActionOf(h.cb))

(* C2: after two successive calls of _register_hotkeys with different      *)
(* maps, the facility refusing nothing in the second, exactly the hooks of *)
(* the second map are active, each once.                                   *)
C2_SecondMapOnly ==
    (last.op = "register" /\ last.reg.n = 2 /\ last.reg.refuse = {}
        /\ ~DictEq(last.reg.prev, last.reg.map))
        => /\ HookPairs(osHooks) = ImpliedPairs(last.reg.map)
           /\ Cardinality(osHooks) = Cardinality(KeybindActions)

(* C3: with the default map and the application running, a press of the    *)
(* record chord that reaches the record hook results in exactly one call   *)
(* of toggle_recording.                                                    *)
C3_OneTogglePerPress ==
    (last.op = "press" /\ DictEq(keybinds, DEFAULT_KEYBINDS)
        /\ root = "Tk" /\ "_trigger_record" \in last.out.fired)
        => last.out.toggles = 1

(* C4: when the facility refuses the hook of `record` alone, the call of   *)
(* _register_hotkeys logs the failure and installs the hook of `analyze`.  *)
C4_OthersStillInstalled ==
    (last.op = "register" /\ ~last.reg.raised
        /\ last.reg.refuse = {"record"} /\ HasBind(last.reg.map, "analyze"))
        => last.reg.logged /\ "analyze" \in last.reg.installed

(* C5: the teardown at the head of _register_hotkeys never raises: it      *)
(* never asks the facility to remove a handle that is no longer active.    *)
C5_TeardownNeverRaises ==
    last.op = "register" => ~last.reg.raised

(* C6: the map in memory after a load has exactly one chord for every      *)
(* action, whatever the configuration file holds.                          *)
C6_LoadedMapComplete ==
    \A a \in KeybindActions :
        DictHas(keybinds, a) /\ Len(DictGet(keybinds, a)) = 1

(* C7 as stated: a load after a successful save of the dialog returns the  *)
(* map that was saved, chord string for chord string.                      *)
C7_RoundTripExact ==
    (last.op = "load" /\ last.out.after_save)
        => DictEq(keybinds, last.out.saved)

\* the chords of action k of two maps are the same but for letter case
SameButCase(kb1, kb2, k) ==
    /\ Len(DictGet(kb1, k)) = Len(DictGet(kb2, k))
    /\ \A i \in DOMAIN DictGet(kb1, k) :
          /\ Lower(DictGet(kb1, k)[i]) = Lower(DictGet(kb2, k)[i])
          /\ FormatHotkey(DictGet(kb1, k)[i]) = FormatHotkey(DictGet(kb2, k)[i])

(* C7 as amended: a load after a successful save of the dialog returns a   *)
(* map with the actions that were saved, each chord equal to the saved     *)
(* chord but for the letter case (load capitalises the modifier names),    *)
(* and so with the same hotkey.                                            *)
C7_RoundTripUpToCase ==
    (last.op = "load" /\ last.out.after_save)
        => /\ DictKeys(keybinds) = DictKeys(last.out.saved)
           /\ \A k \in DictKeys(keybinds) :
                 SameButCase(keybinds, last.out.saved, k)

\* a load after a save whose chords came back with another letter case
C7_Witness ==
    /\ last.op = "load" /\ last.out.after_save
    /\ ~DictEq(keybinds, last.out.saved)

(* C8: a save that fails leaves the persisted configuration as it was: a   *)
(* load returns what it returned before the call.                          *)
C8_FailedSaveKeepsFile ==
    (last.op = "save" /\ ~last.out.saved)
        => DictEq(LoadKeybinds(file), LoadKeybinds(last.out.before))

(* C9: a notification invokes every registered listener once, in the       *)
(* order of registration, also when one of them raises.                    *)
C9_AllListenersRun ==
    (last.op = "save" /\ last.out.saved)
        => last.out.invoked = [i \in DOMAIN callbacks |-> i]

(* C10: a dispatch of an action name that is not in the table returns      *)
(* without raising, invokes no behaviour, changes no state of the          *)
(* application and logs exactly one warning.                               *)
C10_UnknownActionNoOp ==
    [][(last'.op = "dispatch" /\ last'.out.action \notin DispatchTable)
          => /\ gui' = gui /\ threads' = threads /\ UNCHANGED kbVars
             /\ last'.out.called = "none"
             /\ ~last'.out.raised
             /\ last'.out.warnings = 1
             /\ last'.out.errors = 0]_vars

\* an unknown action dispatched while a recording and a thread are running
C10_Witness ==
    /\ last.op = "dispatch" /\ last.out.action = "not-a-real-action"
    /\ last.out.warnings = 1
    /\ gui.is_recording /\ threads # <<>>

\* the placeholders start_audio_analysis / start_screenshot_analysis write
StartPlaceholders == {"*Transcribing audio...*", "*Analyzing screenshot...*"}

\* the step starts one background thread
Spawned == Len(threads') = Len(threads) + 1

(* C11: a dispatch of analyze_audio, or of analyze_screenshot with a       *)
(* screenshot at hand, starts one background thread and returns before any *)
(* external call of the pipeline has completed: the new thread is at its   *)
(* start, the threads in flight are as they were, the caller has written   *)
(* the placeholder of the question pane and no result is in a pane.  The   *)
(* same holds for the buttons.                                             *)
C11_HandsOffAndReturns ==
    [][/\ (/\ last'.op = "dispatch"
           /\ last'.out.called \in {"start_audio_analysis",
                                     "start_screenshot_analysis"}
           /\ last'.out.errors = 0) => Spawned
       /\ last'.op \in {"dispatch", "click"} /\ threads' # threads
             => /\ Spawned
                /\ SubSeq(threads', 1, Len(threads)) = threads
                /\ threads'[Len(threads')].pc = "start"
                /\ gui'.short_answer_view = gui.short_answer_view
                /\ gui'.full_answer_view = gui.full_answer_view
                /\ gui'.question_view.by = 0
                /\ gui'.question_view.text \in StartPlaceholders]_vars

\* analyze_audio dispatched while another pipeline is in the middle of its
\* external calls
C11_Witness ==
    /\ last.op = "dispatch" /\ last.out.called = "start_audio_analysis"
    /\ Len(threads) = 2
    /\ threads[2].pc = "start"
    /\ threads[1].pc \in {"gen_short", "gen_full"}

\* the three panes of the window
Panes == {"question_view", "short_answer_view", "full_answer_view"}

\* the texts that announce a result to come
Placeholders ==
    StartPlaceholders
        \cup {"Generating short answer...", "Generating detailed answer..."}

\* the message of the except clause of _full_screenshot_analysis_pipeline
FailureMessage == "Analysis failed - check logs"

\* thread i ends in this step on an exception of an external call
Fails(i) ==
    /\ threads[i].pc \notin EndedPcs
    /\ threads'[i].pc \in {"died", "failed"}

(* C12: when an external call fails in a pipeline while no other pipeline  *)
(* is in flight, a pane shows the generic failure message and no pane is   *)
(* left showing a placeholder.                                             *)
C12_FailureShown ==
    [][\A i \in DOMAIN threads :
          (/\ Fails(i)
           /\ \A j \in DOMAIN threads \ {i} : threads[j].pc \in EndedPcs)
              => /\ \E p \in Panes : gui'[p].text = FailureMessage
                 /\ \A p \in Panes : gui'[p].text \notin Placeholders]_vars

\* the steps of the dialog other than Save
DialogOps == {"focus_in", "key_press", "key_release", "cancel"}

(* C13: no step of the rebind dialog but Save changes the configuration    *)
(* file, the map in memory or the active hooks, and Cancel closes the      *)
(* dialog; a Save that leaves a parsable file has written the chords of    *)
(* both entries.                                                           *)
C13_CancelChangesNothing ==
    [][/\ last'.op \in DialogOps
             => /\ file' = file /\ keybinds' = keybinds
                /\ osHooks' = osHooks /\ hotkey_handles' = hotkey_handles
       /\ last'.op = "cancel" => ~dlg'.open
       /\ (last'.op = "save" /\ file' # file /\ file'.kind = "json")
             => /\ file' = FileJson(ToJson(NewBinds(dlg)))
                /\ DictKeys(LoadKeybinds(file')) = KeybindActions]_vars

\* a cancel, with hooks active, that discarded a newly captured record chord
C13_Witness ==
    /\ last.op = "cancel"
    /\ osHooks # {}
    /\ HasBind(keybinds, "record")
    /\ DictGet(last.out.discarded, "record")[1] # DictGet(keybinds, "record")[1]
    /\ ~dlg.open

(* C14: every pane was last written on the UI thread (writer 0), never by  *)
(* a background thread itself.                                             *)
C14_WidgetsOnUiThread ==
    \A p \in Panes : gui[p].by = 0

\* the modifiers of which a key is down, in the order of the widget
HeldMods(held) ==
    (IF \E k \in held : StartsWith(k, W_Control) THEN <<W_Control>> ELSE <<>>)
    \o (IF \E k \in held : StartsWith(k, W_Shift) THEN <<W_Shift>> ELSE <<>>)
    \o (IF \E k \in held : StartsWith(k, W_Alt) THEN <<W_Alt>> ELSE <<>>)

\* whether the key is one of the modifier keys the widget follows
IsModifierKey(key) ==
    StartsWith(key, W_Control) \/ StartsWith(key, W_Shift)
        \/ StartsWith(key, W_Alt)

(* C15: a key-down of a non-modifier key resolves the chord of the entry   *)
(* to the modifiers of which a key is down at that moment, in the fixed    *)
(* order, followed by the key, in lower case; get_bind returns it.  When   *)
(* the dialog opens, set_bind has given the entry the chord of the map.    *)
C15_ChordIsHeldModifiersPlusKey ==
    /\ (last.op = "key_down" /\ ~IsModifierKey(last.out.key))
          => /\ last.out.resolved
             /\ Strip(GetBind(dlg.record_entry), {"<", ">"})
                   = Lower(Join(<<"-">>,
                                HeldMods(last.out.held \ {last.out.key})
                                    \o <<last.out.key>>))
    /\ (last.op = "open_settings" /\ HasBind(keybinds, "record"))
          => GetBind(dlg.record_entry) = DictGet(keybinds, "record")[1]

\* str.split(c)
RECURSIVE Split(_, _)
Split(s, c) ==
    IF \E i \in DOMAIN s : s[i] = c
    THEN LET i == CHOOSE k \in DOMAIN s :
                     s[k] = c /\ \A j \in 1..(k - 1) : s[j] # c
         IN  <<SubSeq(s, 1, i - 1)>> \o Split(SubSeq(s, i + 1, Len(s)), c)
    ELSE <<s>>

W_Meta == <<"M", "e", "t", "a">>

\* the modifier names a chord may hold, in lower case
AllowedModifiers == {Lower(m) : m \in {W_Control, W_Shift, W_Alt, W_Win, W_Meta}}

\* whether a key name is a modifier or one of its two keys
IsModifierName(name) ==
    \E m \in AllowedModifiers :
        Lower(name) \in {m, m \o <<"_", "l">>, m \o <<"_", "r">>}

\* a chord with a non-empty primary key that is no modifier, after
\* modifiers of the allowed set only
WellFormed(chord) ==
    LET parts   == Split(Strip(chord, {"<", ">"}), "-")
        primary == parts[Len(parts)]
    IN  /\ primary # <<>>
        /\ ~IsModifierName(primary)
        /\ \A i \in 1..(Len(parts) - 1) : Lower(parts[i]) \in AllowedModifiers

(* C16: every chord a successful Save of the dialog has written is         *)
(* well-formed.                                                            *)
C16_SavedChordsWellFormed ==
    (last.op = "save" /\ last.out.saved)
        => \A a \in DictKeys(last.out.map) :
              \A i \in DOMAIN DictGet(last.out.map, a) :
                  WellFormed(DictGet(last.out.map, a)[i])

(* C17: a trigger of an analysis starts a new thread whatever pipelines    *)
(* are in flight; a step of a thread leaves the other threads alone, and a *)
(* pane it writes shows its output afterwards, whichever thread wrote the  *)
(* pane before.                                                            *)
C17_NoDedup ==
    [][/\ (last'.op = "dispatch"
              /\ last'.out.called = "start_audio_analysis")
             => threads' = Append(threads, [kind |-> "audio", pc |-> "start"])
       /\ (last'.op = "dispatch"
              /\ last'.out.called = "start_screenshot_analysis"
              /\ last'.out.errors = 0)
             => threads' = Append(threads,
                                  [kind |-> "screenshot", pc |-> "start"])
       /\ \A i \in DOMAIN threads :
             threads'[i] # threads[i]
                => /\ \A j \in DOMAIN threads \ {i} : threads'[j] = threads[j]
                   /\ Len(threads') = Len(threads)
                   /\ \A p \in Panes :
                         gui'[p] = gui[p] \/ gui'[p].by = i]_vars

\* two audio pipelines, the second started while the first was in flight,
\* have both run to completion; the two answer panes show the output of
\* different threads
C17_Witness ==
    /\ Len(threads) = 2
    /\ \A i \in 1..2 : threads[i].kind = "audio" /\ threads[i].pc = "done"
    /\ gui.short_answer_view = Pane("short answer", 2)
    /\ gui.full_answer_view = Pane("full answer", 1)

(* C18: the is_recording flag of the recorder is true exactly when its     *)
(* input stream has been opened and started and not yet stopped.           *)
C18_FlagMatchesStream ==
    gui.is_recording <=> gui.stream = "started"

\* the long operations the step starts
NewOps == SubSeq(threads', Len(threads) + 1, Len(threads'))

\* how many operations of ops have the end key
OpsOfKind(ops, end_key) ==
    Cardinality({i \in DOMAIN ops : ops[i].kind = end_key})

(* C19: in handle_events, with the focus on the position input a key or    *)
(* button event of recording or analysis neither toggles the recording nor *)
(* starts a long operation; the generation of the quick and of the full    *)
(* answer is started by the handling of a -WHISPER- event only, one of     *)
(* each for every such event.                                              *)
C19_EventsGated ==
    [][/\ Len(threads') > Len(threads) => last'.op = "event"
       /\ last'.op = "event"
             => /\ (/\ last'.out.focus = "position"
                    /\ last'.out.event \in RecordEvents \cup AnalyzeEvents)
                      => /\ gui'.is_recording = gui.is_recording
                         /\ NewOps = <<>>
                /\ OpsOfKind(NewOps, "-QUICK_ANSWER-")
                      = IF last'.out.event = "-WHISPER-" THEN 1 ELSE 0
                /\ OpsOfKind(NewOps, "-FULL_ANSWER-")
                      = IF last'.out.event = "-WHISPER-" THEN 1 ELSE 0]_vars
====
